---- MODULE Spec2Model ----
(***************************************************************************)
(* Room membership projection (src/src/room_membership.rs) over a          *)
(* PostgreSQL connection.  The committed contents of the `events` and      *)
(* `room_memberships` tables are the shared state; every caller runs on    *)
(* its own connection and each SQL statement is one step.                  *)
(*                                                                         *)
(* `RoomMembership::create` wraps its statements in                        *)
(* `connection.transaction` (BEGIN ... COMMIT at the default READ          *)
(* COMMITTED level): its writes stay private to the connection until the   *)
(* commit and are dropped on any error.                                    *)
(* `update_room_membership_events` opens no transaction: each of its two   *)
(* statements is committed on its own.                                     *)
(*                                                                         *)
(* The transactions table (src/src/models/transaction.rs) caches one       *)
(* response per (path, access_token); Transaction::create and              *)
(* Transaction::find are one statement each.                               *)
(***************************************************************************)
EXTENDS Integers, Sequences, FiniteSets, TLC

\* ------------------------------------------------------------------ bounds
\* Calls started in one run.
MaxCalls == 2

\* The callers, each on a connection of its own.
Procs == {"p1", "p2"}

\* ------------------------------------------------------------- input sets
Rooms == {"r1", "r2", "r3"}
Users == {"u1", "u2"}
\* The users who act as the sender of a create.
Senders == {"u1"}
\* MembershipState (ruma_events) is a closed set; "bogus" stands for every
\* string outside it.
MembershipStates == {"join", "leave"}
MembershipStrings == MembershipStates \cup {"bogus"}
JoinRules == {"invite", "public"}
\* "none" is Option::None of avatar_url / displayname.
ProfileInputs == { [avatar_url |-> "a2", displayname |-> "none"],
                   [avatar_url |-> "none", displayname |-> "d2"] }

VARIABLES
    events,            \* committed rows of the events table, in insertion order
    room_memberships,  \* committed rows of the room_memberships table
    joinRule,          \* room -> current m.room.join_rules state ("none": no such event)
    nextId,            \* source of fresh event ids (EventId::new)
    pc,                \* per caller: the statement it is about to run
    call,              \* per caller: the arguments of the call in progress / last call
    found,             \* per caller: result of RoomMembership::find inside create
    evid,              \* per caller: the event id generated by the call
    txEvents,          \* per caller: events written inside the open transaction
    txRows,            \* per caller: rows written inside the open transaction
    res,               \* per caller: result of the last finished call
    ncalls,            \* number of calls started so far
    overlapped,        \* history: some call started while another was in progress
    first,             \* history: the first call started
    uniform,           \* history: every call so far repeats the first one
    prev,              \* history: the call that finished last
    twice,             \* history: the call that finished last repeated the one before it
    listed,            \* result of the last get_events_by_room query
    transactions,      \* committed rows of the transactions table
    firstResponse,     \* history: per key, the response of the first create that succeeded
    lookup             \* the last Transaction call or lookup and its result

\* The variables of the membership projection.
mvars == << events, room_memberships, joinRule, nextId, pc, call, found, evid,
            txEvents, txRows, res, ncalls, overlapped, first, uniform, prev, twice, listed >>

\* The variables of the transaction store and of the lookups.
tvars == << transactions, firstResponse, lookup >>

vars == << mvars, tvars >>

\* ---------------------------------------------------------------- helpers
Range(s) == { s[i] : i \in 1..Len(s) }

Count(s, P(_)) == Cardinality({ i \in 1..Len(s) : P(s[i]) })

SamePair(x, room_id, user_id) == x.room_id = room_id /\ x.user_id = user_id

RowsOf(table, room_id, user_id) ==
    Count(table, LAMBDA r : SamePair(r, room_id, user_id))

EventsOf(log, room_id, user_id) ==
    Count(log, LAMBDA e : SamePair(e, room_id, user_id))

\* The clock behind `created_at ... DEFAULT now()`.
Now == ncalls

\* Profile::find_by_user_id: the profile store is read only here.
ProfileStore ==
    [ u \in Users |-> IF u = "u1"
                      THEN << [avatar_url |-> "a1", displayname |-> "d1"] >>
                      ELSE << >> ]


\* ----------------------------------------------------- values and results
NoCall == [ op |-> "none", room_id |-> "", user_id |-> "", sender |-> "",
            membership |-> "", profile |-> << >>, arg |-> << >> ]

\* Result<_, ApiError> of a call: status is "ok" or the kind of the error;
\* row is the Option<RoomMembership> carried by an Ok of create and, for
\* update_room_membership_events, the caller's RoomMembership (the `&mut`
\* argument) as the call leaves it.
Result(op, status, row) == [ op |-> op, status |-> status, row |-> row ]

NoResult == Result("none", "none", << >>)

\* RoomMembershipOptions
Options == [ room_id : Rooms, user_id : Users, sender : Senders,
             membership : MembershipStrings ]

CreateCall(o) == [ op |-> "create", room_id |-> o.room_id, user_id |-> o.user_id,
                   sender |-> o.sender, membership |-> o.membership,
                   profile |-> << >>, arg |-> << >> ]

UpdateCall(rm, profile) ==
    [ op |-> "update", room_id |-> rm.room_id, user_id |-> rm.user_id,
      sender |-> rm.sender, membership |-> rm.membership,
      profile |-> << profile >>, arg |-> << rm >> ]

\* ----------------------------------------------------------- pure helpers
\* find with the filter on the pair lost: the lookup never sees the row.
find_never(table, room_id, user_id) == { << >> }

\* RoomMembership::find: `.filter(room_id).filter(user_id).first()`.  There is
\* no ORDER BY, so with several matching rows any of them may come first.
find(table, room_id, user_id) ==
    IF RowsOf(table, room_id, user_id) = 0
    THEN { << >> }
    ELSE { << table[i] >> : i \in { j \in 1..Len(table) :
                                      SamePair(table[j], room_id, user_id) } }

\* The guard without the comparison of user and sender: an invite-only room
\* refuses everyone.
not_invited_any_sender(options, join_rule) == join_rule = "invite"

\* The guard with the comparison of user and sender inverted.
not_invited_inverted(options, join_rule) ==
    options.user_id = options.sender /\ join_rule = "invite"

\* The guard of the Unauthorized return in create.
not_invited(options, join_rule) ==
    options.user_id # options.sender /\ join_rule = "invite"

\* A parser that takes every string for a membership state.
from_value_lenient(s) == << s >>

\* serde_json::from_value::<MembershipState>(Value::String(s)): << m >> on
\* success, << >> on a serialization error.
from_value(s) == IF s \in MembershipStates THEN << s >> ELSE << >>

\* The row built with an event id of its own, not the event's.
new_room_membership_other_id(options, event_id) ==
    [ event_id |-> event_id + 1, room_id |-> options.room_id,
      user_id |-> options.user_id, sender |-> options.sender,
      membership |-> options.membership ]

\* The NewRoomMembership built by create.
new_room_membership(options, event_id) ==
    [ event_id |-> event_id, room_id |-> options.room_id,
      user_id |-> options.user_id, sender |-> options.sender,
      membership |-> options.membership ]

\* The row `insert(&new_room_membership) ... get_result` stores and returns.
inserted_row(new, now) ==
    [ event_id |-> new.event_id, room_id |-> new.room_id, user_id |-> new.user_id,
      sender |-> new.sender, membership |-> new.membership, created_at |-> now ]

\* The MemberEvent built by create: profile is the Option<Profile> found.
create_member_event(options, event_id, membership, profile) ==
    [ event_id |-> event_id, event_type |-> "m.room.member",
      room_id |-> options.room_id, user_id |-> options.user_id, state_key |-> "",
      membership |-> membership,
      avatar_url |-> IF profile = << >> THEN "none" ELSE profile[1].avatar_url,
      displayname |-> IF profile = << >> THEN "none" ELSE profile[1].displayname ]

\* The event built with a fixed membership instead of the row's.
update_member_event_join(rm, event_id, membership, profile) ==
    [ event_id |-> event_id, event_type |-> "m.room.member",
      room_id |-> rm.room_id, user_id |-> rm.user_id, state_key |-> "",
      membership |-> "join",
      avatar_url |-> profile.avatar_url, displayname |-> profile.displayname ]

\* The MemberEvent built by update_room_membership_events.
update_member_event(rm, event_id, membership, profile) ==
    [ event_id |-> event_id, event_type |-> "m.room.member",
      room_id |-> rm.room_id, user_id |-> rm.user_id, state_key |-> "",
      membership |-> membership,
      avatar_url |-> profile.avatar_url, displayname |-> profile.displayname ]

\* The caller's RoomMembership after `update(&mut self, ..., event_id)`: the
\* method runs the UPDATE and assigns no field of self.
self_after_update(self, event_id) == self

\* The UPDATE without the filter on user_id: every row of the room is
\* repointed.
update_in_room(table, self, event_id) ==
    [ i \in 1..Len(table) |->
        IF table[i].room_id = self.room_id
        THEN [ table[i] EXCEPT !.event_id = event_id ]
        ELSE table[i] ]

\* RoomMembership::update: UPDATE room_memberships SET event_id = $1
\* WHERE room_id = self.room_id AND user_id = self.user_id.
update(table, self, event_id) ==
    [ i \in 1..Len(table) |->
        IF SamePair(table[i], self.room_id, self.user_id)
        THEN [ table[i] EXCEPT !.event_id = event_id ]
        ELSE table[i] ]

\* The query selecting the events by their room instead of by the rows' ids.
get_events_of_room(table, log, room_id) ==
    [ status |-> "ok",
      events |-> SelectSeq(log, LAMBDA e : e.room_id = room_id) ]

\* RoomMembership::get_events_by_room: SELECT * FROM events WHERE id =
\* ANY(SELECT event_id FROM room_memberships WHERE room_id = $1), each event
\* then converted to a MemberEvent.
get_events_by_room(table, log, room_id) ==
    LET event_ids == { table[i].event_id : i \in { j \in 1..Len(table) :
                                                     table[j].room_id = room_id } }
    IN  [ status |-> "ok",
          events |-> SelectSeq(log, LAMBDA e : e.event_id \in event_ids) ]

\* A commit that puts the connection's writes in the place of the table:
\* what other connections committed since is lost.
commit_replaces(committed, written) ==
    IF written = << >> THEN committed ELSE written

\* connection.transaction: an Ok from the closure commits what it wrote, an
\* Err rolls it back.
commit(committed, written) == committed \o written

\* No rollback: what the statements wrote stays written.
rollback_keeps(committed, written) == committed \o written

rollback(committed, written) == committed

\* -------------------------------------------------- the transaction store
\* Inputs of Transaction::create and Transaction::find.
Paths == {"/a", "/b"}
Tokens == {"t1", "t2"}
Responses == {"x", "y"}

TxKeys == Paths \X Tokens

\* NewTransaction { path, access_token, response } and the Transaction row.
NewTransaction(path, access_token, response) ==
    [ path |-> path, access_token |-> access_token, response |-> response ]

\* The rows of the table under the primary key (path, access_token).
by_primary_key(table, path, access_token) ==
    { t \in table : t.path = path /\ t.access_token = access_token }

\* ApiError::from(diesel::result::Error): the kind of ApiError a database
\* error becomes.
api_error_from(error) ==
    IF error = "unique_violation" THEN "conflict" ELSE "storage"

\* An insert that replaces the row under the key (ON CONFLICT DO UPDATE).
insert_overwrites(table, new) ==
    [ table |-> (table \ by_primary_key(table, new.path, new.access_token))
                    \cup {new},
      status |-> "ok", rows |-> << new >> ]

\* `insert(new_transaction).into(transactions::table).get_result(connection)
\*  .map_err(ApiError::from)`: the primary key (path, access_token) rejects a
\* second row under the same key.
insert_transaction(table, new) ==
    IF by_primary_key(table, new.path, new.access_token) # {}
    THEN [ table |-> table, status |-> api_error_from("unique_violation"),
           rows |-> << >> ]
    ELSE [ table |-> table \cup {new}, status |-> "ok", rows |-> << new >> ]

\* diesel's get_result / first over the rows a query selects: Ok(row) or
\* Err(NotFound).
get_result(selected) ==
    IF selected = {} THEN { [ status |-> "NotFound", rows |-> << >> ] }
    ELSE { [ status |-> "ok", rows |-> << t >> ] : t \in selected }

\* The match without the NotFound arm: every Err becomes an ApiError.
absent_is_error(result) ==
    IF result.status = "ok" THEN result
    ELSE [ status |-> "not_found", rows |-> << >> ]

\* `match result { Ok(x) => Ok(Some(x)), Err(NotFound) => Ok(None),
\*                 Err(err) => Err(ApiError::from(err)) }`
absent_is_none(result) ==
    IF result.status = "ok" THEN result
    ELSE IF result.status = "NotFound" THEN [ status |-> "ok", rows |-> << >> ]
    ELSE [ status |-> api_error_from(result.status), rows |-> << >> ]

\* The lookup with the token dropped from the key.
transaction_find_by_path(table, path, access_token) ==
    { absent_is_none(r) : r \in get_result({ t \in table : t.path = path }) }

\* Transaction::find: `transactions::table.find((path, access_token))
\*  .get_result(connection)` followed by the match.
transaction_find(table, path, access_token) ==
    { absent_is_none(r) :
        r \in get_result(by_primary_key(table, path, access_token)) }

\* What a Transaction call or a lookup answered: args are its arguments, rows
\* the Option / Vec it returned.
Lookup(op, args, status, rows) ==
    [ op |-> op, args |-> args, status |-> status, rows |-> rows ]

NoLookup == Lookup("none", << >>, "none", << >>)

TxInit ==
    /\ transactions = {}
    /\ firstResponse = [ k \in TxKeys |-> << >> ]
    /\ lookup = NoLookup

\* ------------------------------------------------------------ state machine
\* The join rules state of the rooms: "r1" is invite-only, "r2" is public and
\* "r3" has no join rules event.
JoinRuleConfigs ==
    { [ r \in Rooms |-> CASE r = "r1" -> "invite" [] r = "r2" -> "public"
                           [] OTHER -> "none" ] }

NoPrev == [ call |-> NoCall, res |-> NoResult, inserted |-> FALSE ]

NotListed == [ room_id |-> "", status |-> "none", events |-> << >> ]

Init ==
    /\ events = << >>
    /\ room_memberships = << >>
    /\ joinRule \in JoinRuleConfigs
    /\ nextId = 1
    /\ pc = [ p \in Procs |-> "idle" ]
    /\ call = [ p \in Procs |-> NoCall ]
    /\ found = [ p \in Procs |-> << >> ]
    /\ evid = [ p \in Procs |-> 0 ]
    /\ txEvents = [ p \in Procs |-> << >> ]
    /\ txRows = [ p \in Procs |-> << >> ]
    /\ res = [ p \in Procs |-> NoResult ]
    /\ ncalls = 0
    /\ overlapped = FALSE
    /\ first = NoCall
    /\ uniform = TRUE
    /\ prev = NoPrev
    /\ twice = FALSE
    /\ listed = NotListed
    /\ TxInit

\* History of the calls started: c starts on caller p.
Started(p, c) ==
    /\ pc[p] = "idle"
    /\ ncalls < MaxCalls
    /\ ncalls' = ncalls + 1
    /\ overlapped' = (overlapped \/ \E q \in Procs \ {p} : pc[q] # "idle")
    /\ uniform' = (uniform /\ c.op = "create" /\ (ncalls = 0 \/ first = c))
    /\ first' = IF uniform' THEN c ELSE NoCall

\* History of the calls finished: call c of caller p returns r.
Returned(p, c, r, inserted) ==
    /\ res' = [ res EXCEPT ![p] = r ]
    /\ call' = [ call EXCEPT ![p] = NoCall ]
    /\ found' = [ found EXCEPT ![p] = << >> ]
    /\ txEvents' = [ txEvents EXCEPT ![p] = << >> ]
    /\ txRows' = [ txRows EXCEPT ![p] = << >> ]
    /\ prev' = IF overlapped' THEN NoPrev
               ELSE [ call |-> c, res |-> r, inserted |-> inserted ]
    /\ twice' = (~ overlapped' /\ prev.call = c /\ prev.res.status = "ok"
                 /\ r.status = "ok")

\* The call in progress on caller p returns r.
Return(p, r, inserted) ==
    /\ pc' = [ pc EXCEPT ![p] = "idle" ]
    /\ UNCHANGED << ncalls, overlapped, first, uniform >>
    /\ Returned(p, call[p], r, inserted)

\* RoomMembership::create is called: the transaction is opened and
\* RoomMembership::find reads the committed rows.
create_find(p, o) ==
    /\ UNCHANGED tvars
    /\ Started(p, CreateCall(o))
    /\ call' = [ call EXCEPT ![p] = CreateCall(o) ]
    /\ \E f \in find(room_memberships, o.room_id, o.user_id) :
          found' = [ found EXCEPT ![p] = f ]
    /\ evid' = [ evid EXCEPT ![p] = 0 ]
    /\ pc' = [ pc EXCEPT ![p] = "c_rules" ]
    /\ UNCHANGED << events, room_memberships, joinRule, nextId, txEvents, txRows,
                    res, prev, twice, listed >>

\* RoomMembership::find fails in the database: the `?` leaves the closure.
create_find_error(p, o) ==
    /\ UNCHANGED tvars
    /\ Started(p, CreateCall(o))
    /\ Returned(p, CreateCall(o), Result("create", "storage", << >>), FALSE)
    /\ evid' = [ evid EXCEPT ![p] = 0 ]
    /\ events' = rollback(events, txEvents[p])
    /\ room_memberships' = rollback(room_memberships, txRows[p])
    /\ UNCHANGED << joinRule, nextId, pc, listed >>

\* Event::find_room_join_rules_by_room_id fails: the room has no join rules
\* event.  The `?` leaves the closure before the match on the row.
create_no_join_rules(p) ==
    /\ UNCHANGED tvars
    /\ pc[p] = "c_rules"
    /\ joinRule[call[p].room_id] = "none"
    /\ Return(p, Result("create", "not_found", << >>), FALSE)
    /\ events' = rollback(events, txEvents[p])
    /\ room_memberships' = rollback(room_memberships, txRows[p])
    /\ UNCHANGED << joinRule, nextId, evid, listed >>

\* Some(room_membership) => Ok(room_membership)
create_existing(p) ==
    /\ UNCHANGED tvars
    /\ pc[p] = "c_rules"
    /\ joinRule[call[p].room_id] # "none"
    /\ found[p] # << >>
    /\ Return(p, Result("create", "ok", found[p]), FALSE)
    /\ events' = commit(events, txEvents[p])
    /\ room_memberships' = commit(room_memberships, txRows[p])
    /\ UNCHANGED << joinRule, nextId, evid, listed >>

\* None, and the room is invite-only for this user: Unauthorized.
create_unauthorized(p) ==
    /\ UNCHANGED tvars
    /\ pc[p] = "c_rules"
    /\ joinRule[call[p].room_id] # "none"
    /\ found[p] = << >>
    /\ not_invited(call[p], joinRule[call[p].room_id])
    /\ Return(p, Result("create", "unauthorized", << >>), FALSE)
    /\ events' = rollback(events, txEvents[p])
    /\ room_memberships' = rollback(room_memberships, txRows[p])
    /\ UNCHANGED << joinRule, nextId, evid, listed >>

\* None and allowed: EventId::new, then from_value on the membership string
\* fails with a serialization error.
create_bad_membership(p) ==
    /\ UNCHANGED tvars
    /\ pc[p] = "c_rules"
    /\ joinRule[call[p].room_id] # "none"
    /\ found[p] = << >>
    /\ ~ not_invited(call[p], joinRule[call[p].room_id])
    /\ from_value(call[p].membership) = << >>
    /\ evid' = [ evid EXCEPT ![p] = nextId ]
    /\ nextId' = nextId + 1
    /\ Return(p, Result("create", "serialization", << >>), FALSE)
    /\ events' = rollback(events, txEvents[p])
    /\ room_memberships' = rollback(room_memberships, txRows[p])
    /\ UNCHANGED << joinRule, listed >>

\* None and allowed: EventId::new, a membership that parses,
\* Profile::find_by_user_id, the MemberEvent, insert into events.
create_insert_event(p) ==
    /\ UNCHANGED tvars
    /\ pc[p] = "c_rules"
    /\ joinRule[call[p].room_id] # "none"
    /\ found[p] = << >>
    /\ ~ not_invited(call[p], joinRule[call[p].room_id])
    /\ from_value(call[p].membership) # << >>
    /\ evid' = [ evid EXCEPT ![p] = nextId ]
    /\ nextId' = nextId + 1
    /\ txEvents' = [ txEvents EXCEPT ![p] = Append(@,
           create_member_event(call[p], nextId, from_value(call[p].membership)[1],
                               ProfileStore[call[p].user_id])) ]
    /\ pc' = [ pc EXCEPT ![p] = "c_row" ]
    /\ UNCHANGED << events, room_memberships, joinRule, call, found, txRows,
                    res, ncalls, overlapped, first, uniform, prev, twice, listed >>

\* insert into room_memberships ... get_result
create_insert_row(p) ==
    /\ UNCHANGED tvars
    /\ pc[p] = "c_row"
    /\ txRows' = [ txRows EXCEPT ![p] = Append(@,
           inserted_row(new_room_membership(call[p], evid[p]), Now)) ]
    /\ pc' = [ pc EXCEPT ![p] = "c_commit" ]
    /\ UNCHANGED << events, room_memberships, joinRule, nextId, call, found, evid,
                    txEvents, res, ncalls, overlapped, first, uniform, prev, twice,
                    listed >>

\* Ok(room_membership): the transaction commits.
create_commit(p) ==
    /\ UNCHANGED tvars
    /\ pc[p] = "c_commit"
    /\ events' = commit(events, txEvents[p])
    /\ room_memberships' = commit(room_memberships, txRows[p])
    /\ Return(p, Result("create", "ok", << txRows[p][1] >>), TRUE)
    /\ UNCHANGED << joinRule, nextId, evid, listed >>

\* A later statement of create fails in the database (diesel returns Err): the
\* `?` leaves the closure and the transaction is rolled back.
\* At "c_rules" the failing statement is the read of the join rules event,
\* which comes before the match on the row found.
create_db_error(p) ==
    /\ UNCHANGED tvars
    /\ pc[p] \in {"c_rules", "c_row", "c_commit"}
    /\ events' = rollback(events, txEvents[p])
    /\ room_memberships' = rollback(room_memberships, txRows[p])
    /\ Return(p, Result("create", "storage", << >>), FALSE)
    /\ UNCHANGED << joinRule, nextId, evid, listed >>

\* A RoomMembership whose membership field the caller filled with a string
\* outside the closed set (the fields of the struct are public).
unparsable(rm) == [ rm EXCEPT !.membership = "bogus" ]

\* update_room_membership_events is called with a row rm the caller read from
\* the table and a profile: EventId::new, from_value on the row's membership,
\* insert into events.  No transaction is open: the statement commits.
update_insert_event(p, rm, profile) ==
    /\ UNCHANGED tvars
    /\ Started(p, UpdateCall(rm, profile))
    /\ evid' = [ evid EXCEPT ![p] = nextId ]
    /\ nextId' = nextId + 1
    /\ IF from_value(rm.membership) = << >>
       THEN /\ Returned(p, UpdateCall(rm, profile),
                        Result("update", "serialization", << rm >>), FALSE)
            /\ UNCHANGED << events, pc >>
       ELSE /\ events' = Append(events,
                   update_member_event(rm, nextId, from_value(rm.membership)[1],
                                       profile))
            /\ call' = [ call EXCEPT ![p] = UpdateCall(rm, profile) ]
            /\ pc' = [ pc EXCEPT ![p] = "u_row" ]
            /\ UNCHANGED << found, txEvents, txRows, res, prev, twice >>
    /\ UNCHANGED << room_memberships, joinRule, listed >>

\* The insert into events fails in the database: the `?` returns the error.
update_insert_event_error(p, rm, profile) ==
    /\ UNCHANGED tvars
    /\ Started(p, UpdateCall(rm, profile))
    /\ from_value(rm.membership) # << >>
    /\ evid' = [ evid EXCEPT ![p] = nextId ]
    /\ nextId' = nextId + 1
    /\ Returned(p, UpdateCall(rm, profile),
                Result("update", "storage", << rm >>), FALSE)
    /\ UNCHANGED << events, room_memberships, joinRule, pc, listed >>

\* room_membership.update(connection, event_id), then Ok(()).
update_row(p) ==
    /\ UNCHANGED tvars
    /\ pc[p] = "u_row"
    /\ room_memberships' = update(room_memberships, call[p].arg[1], evid[p])
    /\ Return(p, Result("update", "ok",
                        << self_after_update(call[p].arg[1], evid[p]) >>), FALSE)
    /\ UNCHANGED << events, joinRule, nextId, evid, listed >>

\* The UPDATE fails in the database: the `?` returns the error; the event
\* inserted before stays.
update_row_error(p) ==
    /\ UNCHANGED tvars
    /\ pc[p] = "u_row"
    /\ Return(p, Result("update", "storage", << call[p].arg[1] >>), FALSE)
    /\ UNCHANGED << events, room_memberships, joinRule, nextId, evid, listed >>

Next ==
    \E p \in Procs :
        \/ \E o \in Options : create_find(p, o)
        \/ \E o \in Options : create_find_error(p, o)
        \/ create_no_join_rules(p)
        \/ create_existing(p)
        \/ create_unauthorized(p)
        \/ create_bad_membership(p)
        \/ create_insert_event(p)
        \/ create_insert_row(p)
        \/ create_commit(p)
        \/ create_db_error(p)
        \/ \E rm \in Range(room_memberships), profile \in ProfileInputs :
              update_insert_event(p, rm, profile)
        \/ \E rm \in Range(room_memberships), profile \in ProfileInputs :
              update_insert_event_error(p, rm, profile)
        \/ \E rm \in Range(room_memberships), profile \in ProfileInputs :
              update_insert_event(p, unparsable(rm), profile)
        \/ update_row(p)
        \/ update_row_error(p)

Spec == Init /\ [][Next]_vars

\* ------------------------------------------ the query over any table contents
\* get_events_by_room is a function of the two tables: here the tables are
\* its inputs, drawn from bounded sets, also with rows whose event is not in
\* the events table.
MaxQueryRows == 2
MaxQueryEventId == 3

QueryRooms == {"r1", "r2"}

QueryRows ==
    [ event_id : 1..MaxQueryEventId, room_id : QueryRooms, user_id : Users,
      sender : Senders, membership : {"join"}, created_at : {0} ]

QueryEvent(id, room_id) ==
    [ event_id |-> id, event_type |-> "m.room.member", room_id |-> room_id,
      user_id |-> "u1", state_key |-> "", membership |-> "join",
      avatar_url |-> "none", displayname |-> "none" ]

SeqsUpTo(S, n) == UNION { [ 1..k -> S ] : k \in 0..n }

\* The event logs with increasing ids, any id absent or present.
RECURSIVE QueryLogs(_)
QueryLogs(n) ==
    IF n = 0 THEN { << >> }
    ELSE LET shorter == QueryLogs(n - 1)
         IN  shorter \cup { Append(l, QueryEvent(n, r)) :
                               l \in shorter, r \in QueryRooms }

QueryInit ==
    /\ events \in QueryLogs(MaxQueryEventId)
    /\ room_memberships \in SeqsUpTo(QueryRows, MaxQueryRows)
    /\ joinRule \in JoinRuleConfigs
    /\ nextId = MaxQueryEventId + 1
    /\ pc = [ p \in Procs |-> "idle" ]
    /\ call = [ p \in Procs |-> NoCall ]
    /\ found = [ p \in Procs |-> << >> ]
    /\ evid = [ p \in Procs |-> 0 ]
    /\ txEvents = [ p \in Procs |-> << >> ]
    /\ txRows = [ p \in Procs |-> << >> ]
    /\ res = [ p \in Procs |-> NoResult ]
    /\ ncalls = 0
    /\ overlapped = FALSE
    /\ first = NoCall
    /\ uniform = TRUE
    /\ prev = NoPrev
    /\ twice = FALSE
    /\ listed = NotListed
    /\ TxInit

\* RoomMembership::get_events_by_room(connection, room_id) is called.
query_events_by_room(room_id) ==
    /\ UNCHANGED tvars
    /\ listed' = [ room_id |-> room_id ] @@
                 get_events_by_room(room_memberships, events, room_id)
    /\ UNCHANGED << events, room_memberships, joinRule, nextId, pc, call, found,
                    evid, txEvents, txRows, res, ncalls, overlapped, first, uniform,
                    prev, twice >>

QueryNext == \E room_id \in QueryRooms : query_events_by_room(room_id)

SpecQuery == QueryInit /\ [][QueryNext]_vars

\* ------------------------------------------- the transaction store at work
\* Transaction::create(connection, path, access_token, response): one INSERT.
transaction_create(path, access_token, response) ==
    LET new == NewTransaction(path, access_token, response)
        ins == insert_transaction(transactions, new)
    IN  /\ transactions' = ins.table
        /\ lookup' = Lookup("Transaction::create",
                            << path, access_token, response >>,
                            ins.status, ins.rows)
        /\ firstResponse' =
              IF ins.status = "ok" /\ firstResponse[<< path, access_token >>] = << >>
              THEN [ firstResponse EXCEPT ![<< path, access_token >>] =
                                              << response >> ]
              ELSE firstResponse
        /\ UNCHANGED mvars

\* The INSERT fails for a reason other than the key.
transaction_create_error(path, access_token, response) ==
    /\ lookup' = Lookup("Transaction::create", << path, access_token, response >>,
                        api_error_from("connection"), << >>)
    /\ UNCHANGED << transactions, firstResponse >>
    /\ UNCHANGED mvars

\* Transaction::find(connection, path, access_token): one SELECT.
transaction_find_call(path, access_token) ==
    /\ \E r \in transaction_find(transactions, path, access_token) :
          lookup' = Lookup("Transaction::find", << path, access_token >>,
                           r.status, r.rows)
    /\ UNCHANGED << transactions, firstResponse >>
    /\ UNCHANGED mvars

\* The SELECT fails.
transaction_find_error(path, access_token) ==
    /\ lookup' = Lookup("Transaction::find", << path, access_token >>,
                        api_error_from("connection"), << >>)
    /\ UNCHANGED << transactions, firstResponse >>
    /\ UNCHANGED mvars

TxNext ==
    \E path \in Paths, access_token \in Tokens :
        \/ \E response \in Responses :
              \/ transaction_create(path, access_token, response)
              \/ transaction_create_error(path, access_token, response)
        \/ transaction_find_call(path, access_token)
        \/ transaction_find_error(path, access_token)

SpecTx == Init /\ [][TxNext]_vars

\* ------------------------------------------------ the lookups over tables
\* Rows of the room_memberships table the lookups run over.
MaxLookupRows == 2

LookupRooms == {"r1", "r2"}

\* A user who joined a room by its own create.
LookupOptions(room_id, user_id) ==
    [ room_id |-> room_id, user_id |-> user_id, sender |-> user_id,
      membership |-> "join" ]

\* The sequences of up to n different (room, user) pairs.
LookupPairs(n) ==
    { s \in SeqsUpTo(LookupRooms \X Users, n) :
        \A i, j \in 1..Len(s) : i # j => s[i] # s[j] }

\* The tables after one successful create per pair of `pairs`, in that order,
\* and any set of first responses stored in the transactions table.
LookupInit ==
    /\ \E pairs \in LookupPairs(MaxLookupRows) :
          /\ room_memberships =
                [ i \in 1..Len(pairs) |->
                    inserted_row(new_room_membership(
                        LookupOptions(pairs[i][1], pairs[i][2]), i), i) ]
          /\ events =
                [ i \in 1..Len(pairs) |->
                    create_member_event(LookupOptions(pairs[i][1], pairs[i][2]),
                                        i, "join", ProfileStore[pairs[i][2]]) ]
          /\ nextId = Len(pairs) + 1
    /\ \E keys \in SUBSET TxKeys :
          /\ transactions = { NewTransaction(k[1], k[2], "x") : k \in keys }
          /\ firstResponse = [ k \in TxKeys |-> IF k \in keys THEN << "x" >>
                                                ELSE << >> ]
    /\ lookup = NoLookup
    /\ joinRule \in JoinRuleConfigs
    /\ pc = [ p \in Procs |-> "idle" ]
    /\ call = [ p \in Procs |-> NoCall ]
    /\ found = [ p \in Procs |-> << >> ]
    /\ evid = [ p \in Procs |-> 0 ]
    /\ txEvents = [ p \in Procs |-> << >> ]
    /\ txRows = [ p \in Procs |-> << >> ]
    /\ res = [ p \in Procs |-> NoResult ]
    /\ ncalls = 0
    /\ overlapped = FALSE
    /\ first = NoCall
    /\ uniform = TRUE
    /\ prev = NoPrev
    /\ twice = FALSE
    /\ listed = NotListed

\* diesel's get_results over the rows a query selects: Ok(rows), also when
\* there are none.
get_results(selected) == [ status |-> "ok", rows |-> selected ]

\* `.map_err(|err| match err { NotFound => ApiError::not_found(None),
\*                             _ => ApiError::from(err) })`
not_found_or_from(result) ==
    IF result.status = "ok" THEN result
    ELSE IF result.status = "NotFound"
         THEN [ status |-> "not_found", rows |-> << >> ]
    ELSE [ status |-> api_error_from(result.status), rows |-> << >> ]

\* RoomMembership::find_by_user_id
find_by_user_id(table, user_id) ==
    not_found_or_from(
        get_results(SelectSeq(table, LAMBDA r : r.user_id = user_id)))

\* RoomMembership::find(connection, room_id, user_id) is called on its own.
find_call(room_id, user_id) ==
    /\ \E f \in find(room_memberships, room_id, user_id) :
          lookup' = Lookup("RoomMembership::find", << room_id, user_id >>, "ok", f)
    /\ UNCHANGED << transactions, firstResponse >>
    /\ UNCHANGED mvars

\* The SELECT of RoomMembership::find fails.
find_error(room_id, user_id) ==
    /\ lookup' = Lookup("RoomMembership::find", << room_id, user_id >>,
                        api_error_from("connection"), << >>)
    /\ UNCHANGED << transactions, firstResponse >>
    /\ UNCHANGED mvars

\* RoomMembership::find_by_user_id(connection, user_id) is called.
find_by_user_id_call(user_id) ==
    /\ LET r == find_by_user_id(room_memberships, user_id)
       IN  lookup' = Lookup("RoomMembership::find_by_user_id", << user_id >>,
                            r.status, r.rows)
    /\ UNCHANGED << transactions, firstResponse >>
    /\ UNCHANGED mvars

\* The SELECT of RoomMembership::find_by_user_id fails.
find_by_user_id_error(user_id) ==
    /\ LET r == not_found_or_from([ status |-> "connection", rows |-> << >> ])
       IN  lookup' = Lookup("RoomMembership::find_by_user_id", << user_id >>,
                            r.status, r.rows)
    /\ UNCHANGED << transactions, firstResponse >>
    /\ UNCHANGED mvars

LookupNext ==
    \/ \E path \in Paths, access_token \in Tokens :
          \/ transaction_find_call(path, access_token)
          \/ transaction_find_error(path, access_token)
    \/ \E room_id \in Rooms, user_id \in Users :
          \/ find_call(room_id, user_id)
          \/ find_error(room_id, user_id)
    \/ \E user_id \in Users :
          \/ find_by_user_id_call(user_id)
          \/ find_by_user_id_error(user_id)
    \/ \E room_id \in Rooms : query_events_by_room(room_id)

SpecLookup == LookupInit /\ [][LookupNext]_vars

\* ----------------------------------------------- calls on existing rows
\* The tables after u1 and u2 each joined the public room r2 by a create of
\* their own; the calls of Next start from there.
JoinedUsers == << "u1", "u2" >>

JoinedInit ==
    /\ ncalls = 0
    /\ room_memberships =
          [ i \in 1..Len(JoinedUsers) |->
              inserted_row(new_room_membership(
                  LookupOptions("r2", JoinedUsers[i]), i), Now) ]
    /\ events =
          [ i \in 1..Len(JoinedUsers) |->
              create_member_event(LookupOptions("r2", JoinedUsers[i]), i, "join",
                                  ProfileStore[JoinedUsers[i]]) ]
    /\ nextId = Len(JoinedUsers) + 1
    /\ joinRule \in JoinRuleConfigs
    /\ pc = [ p \in Procs |-> "idle" ]
    /\ call = [ p \in Procs |-> NoCall ]
    /\ found = [ p \in Procs |-> << >> ]
    /\ evid = [ p \in Procs |-> 0 ]
    /\ txEvents = [ p \in Procs |-> << >> ]
    /\ txRows = [ p \in Procs |-> << >> ]
    /\ res = [ p \in Procs |-> NoResult ]
    /\ overlapped = FALSE
    /\ first = NoCall
    /\ uniform = TRUE
    /\ prev = NoPrev
    /\ twice = FALSE
    /\ listed = NotListed
    /\ TxInit

SpecJoined == JoinedInit /\ [][Next]_vars

\* ------------------------------------------------------------------ claims
AllIdle == \A p \in Procs : pc[p] = "idle"

\* The rows / events a step adds at the end of a table.
Added(old, new) == { new[i] : i \in (Len(old) + 1)..Len(new) }

Extends(old, new) == Len(old) <= Len(new) /\ SubSeq(new, 1, Len(old)) = old

\* C1: when N >= 2 create calls with the same options have run (in any
\* interleaving) and all have returned, the pair has at most one row and at
\* most one member event, and every caller that got Ok got that one row.
C1_ConcurrentCreateSingleRow ==
    (AllIdle /\ uniform /\ ncalls >= 2) =>
        /\ RowsOf(room_memberships, first.room_id, first.user_id) <= 1
        /\ EventsOf(events, first.room_id, first.user_id) <= 1
        /\ \A p \in Procs :
              res[p].status = "ok" =>
                  /\ RowsOf(room_memberships, first.room_id, first.user_id) = 1
                  /\ res[p].row \in find(room_memberships, first.room_id,
                                         first.user_id)

\* C2: in every reachable state the room_memberships table holds at most one
\* row for each (room_id, user_id) pair.
C2_AtMostOneRowPerPair ==
    \A room_id \in Rooms, user_id \in Users :
        RowsOf(room_memberships, room_id, user_id) <= 1

\* C3: when create is called twice in sequence with identical options, no
\* other call running meanwhile, the second call writes nothing and returns
\* the row the first returned (same event_id); afterwards the pair has exactly
\* one row, and exactly one member event when the first call inserted it.
C3_RepeatedCreateIdempotent ==
    [][ \A p \in Procs :
          ( /\ pc[p] # "idle"
            /\ call[p].op = "create"
            /\ ~ overlapped'
            /\ prev.call = call[p]
            /\ prev.res.status = "ok" )
          => /\ events' = events
             /\ room_memberships' = room_memberships
             /\ (pc'[p] = "idle" /\ res'[p].status # "storage") =>
                   /\ res'[p] = prev.res
                   /\ RowsOf(room_memberships', call[p].room_id,
                             call[p].user_id) = 1
                   /\ prev.inserted =>
                         EventsOf(events', call[p].room_id, call[p].user_id) = 1
      ]_vars

\* C3 witness: two creates with the same options have run one after the
\* other, the first inserted the row and the second returned it.
C3_Witness ==
    /\ twice /\ ~ overlapped /\ AllIdle /\ ncalls = 2
    /\ prev.call.op = "create" /\ ~ prev.inserted
    /\ Len(room_memberships) = 1 /\ Len(events) = 1
    /\ prev.res.row = << room_memberships[1] >>

\* C4: a create that found no row, in an invite-only room, with sender #
\* user_id, ends at its next step with Unauthorized (or with the database
\* error of the join rules read), having written nothing: the events and
\* room_memberships tables are as they were.
C4_UnauthorizedWritesNothing ==
    [][ \A p \in Procs :
          ( /\ pc[p] = "c_rules"
            /\ pc'[p] # pc[p]
            /\ found[p] = << >>
            /\ joinRule[call[p].room_id] = "invite"
            /\ call[p].sender # call[p].user_id )
          => /\ pc'[p] = "idle"
             /\ res'[p].status \in {"unauthorized", "storage"}
             /\ res'[p].row = << >>
             /\ events' = events
             /\ room_memberships' = room_memberships
             /\ txEvents[p] = << >> /\ txRows[p] = << >>
      ]_vars

\* C4 witness: a create has returned Unauthorized.
C4_Witness ==
    \E p \in Procs :
        /\ pc[p] = "idle"
        /\ res[p] = Result("create", "unauthorized", << >>)
        /\ events = << >> /\ room_memberships = << >>

\* C5: create is all-or-nothing.  A step of a create call that ends it with
\* an error leaves both tables unchanged; every step of a create call only
\* appends, and the events it adds are exactly the events of the rows it adds.
C5_CreateAllOrNothing ==
    [][ \A p \in Procs :
          ( call[p].op = "create" /\ pc[p] # "idle" /\ pc'[p] # pc[p] )
          => /\ Extends(events, events')
             /\ Extends(room_memberships, room_memberships')
             /\ { e.event_id : e \in Added(events, events') } =
                { r.event_id : r \in Added(room_memberships, room_memberships') }
             /\ \A r \in Added(room_memberships, room_memberships') :
                   \E e \in Added(events, events') :
                       /\ e.event_id = r.event_id
                       /\ SamePair(e, r.room_id, r.user_id)
             /\ res'[p].status # "ok" =>
                   /\ events' = events
                   /\ room_memberships' = room_memberships
      ]_vars

\* C5 witness: a create failed in the database after its event insert, and
\* neither its event nor a row of it is in the tables.
C5_Witness ==
    \E p \in Procs :
        /\ pc[p] = "idle"
        /\ res[p] = Result("create", "storage", << >>)
        /\ evid[p] # 0
        /\ \A e \in Range(events) : e.event_id # evid[p]
        /\ \A r \in Range(room_memberships) : r.event_id # evid[p]

\* C6: when update_room_membership_events has returned an error, neither the
\* event it generated nor a row pointing at that event is in the tables.
C6_UpdateAtomic ==
    \A p \in Procs :
        ( pc[p] = "idle" /\ res[p].op = "update" /\ res[p].status # "ok" )
        => /\ \A e \in Range(events) : e.event_id # evid[p]
           /\ \A r \in Range(room_memberships) : r.event_id # evid[p]

\* C7: in every committed state the event_id of every room_memberships row is
\* the id of a member event of the same pair in the events table.
C7_RowsReferenceEvents ==
    \A r \in Range(room_memberships) :
        \E e \in Range(events) :
            /\ e.event_id = r.event_id
            /\ e.event_type = "m.room.member"
            /\ SamePair(e, r.room_id, r.user_id)

\* C7 witness: a row points at the event that a successful update appended.
C7_Witness ==
    /\ \E r \in Range(room_memberships) :
          \E e \in Range(events) :
              /\ e.event_id = r.event_id
              /\ e.avatar_url \in { q.avatar_url : q \in ProfileInputs }
              /\ e.displayname \in { q.displayname : q \in ProfileInputs }
    /\ \E p \in Procs : res[p].op = "update" /\ res[p].status = "ok"

\* Some row of the room references an event id that is not in the log.
Dangling(table, log, room_id) ==
    \E r \in Range(table) :
        /\ r.room_id = room_id
        /\ \A e \in Range(log) : e.event_id # r.event_id

RowsOfRoom(table, room_id) == { i \in 1..Len(table) : table[i].room_id = room_id }

\* C9: after any sequence of create and update calls (no two overlapping),
\* get_events_by_room(room) returns exactly one event per row of the room:
\* as many events as rows, for every row the event it points at exactly once,
\* and no event of another room or that no row of the room points at.
C9_OneEventPerRow ==
    ~ overlapped =>
        \A room_id \in Rooms :
            LET got == get_events_by_room(room_memberships, events, room_id)
                rows == RowsOfRoom(room_memberships, room_id)
            IN  /\ got.status = "ok"
                /\ Len(got.events) = Cardinality(rows)
                /\ \A i \in rows :
                      Cardinality({ k \in 1..Len(got.events) :
                          got.events[k].event_id = room_memberships[i].event_id }) = 1
                /\ \A k \in 1..Len(got.events) :
                      /\ got.events[k].room_id = room_id
                      /\ \E i \in rows :
                            room_memberships[i].event_id = got.events[k].event_id

\* C9 witness: after a create and an update in sequence the room has one row
\* and a superseded event next to the current one.
C9_Witness ==
    /\ ~ overlapped /\ AllIdle
    /\ \E room_id \in Rooms :
          /\ Cardinality(RowsOfRoom(room_memberships, room_id)) = 1
          /\ Count(events, LAMBDA e : e.room_id = room_id) = 2
          /\ Len(get_events_by_room(room_memberships, events, room_id).events) = 1

\* C10: update_room_membership_events appends one member event at its first
\* statement; at its successful return exactly one event carries the new id,
\* with the membership of the row passed in and the profile passed in; every
\* row of the pair has the new event_id and is otherwise unchanged, rows of
\* other pairs are unchanged, the number of rows is the same, and a single
\* row of the pair has the event's membership.
C10_UpdateEffect ==
    [][ \A p \in Procs :
          /\ ( pc[p] = "idle" /\ pc'[p] = "u_row" ) =>
                /\ Len(events') = Len(events) + 1
                /\ Extends(events, events')
                /\ room_memberships' = room_memberships
          /\ ( pc[p] = "u_row" /\ pc'[p] = "idle" /\ res'[p].status = "ok" ) =>
                LET rm == call[p].arg[1]
                    profile == call[p].profile[1]
                    new == { k \in 1..Len(events') : events'[k].event_id = evid[p] }
                IN  /\ events' = events
                    /\ Cardinality(new) = 1
                    /\ \A k \in new :
                          /\ SamePair(events'[k], rm.room_id, rm.user_id)
                          /\ events'[k].event_type = "m.room.member"
                          /\ events'[k].membership = rm.membership
                          /\ events'[k].avatar_url = profile.avatar_url
                          /\ events'[k].displayname = profile.displayname
                    /\ Len(room_memberships') = Len(room_memberships)
                    /\ \A i \in 1..Len(room_memberships) :
                          IF SamePair(room_memberships[i], rm.room_id, rm.user_id)
                          THEN room_memberships'[i] =
                                 [ room_memberships[i] EXCEPT !.event_id = evid[p] ]
                          ELSE room_memberships'[i] = room_memberships[i]
                    /\ RowsOf(room_memberships', rm.room_id, rm.user_id) =
                       RowsOf(room_memberships, rm.room_id, rm.user_id)
                    /\ RowsOf(room_memberships, rm.room_id, rm.user_id) = 1 =>
                          \A r \in Range(room_memberships') :
                              SamePair(r, rm.room_id, rm.user_id) =>
                                  \A k \in new : events'[k].membership = r.membership
      ]_vars

\* C10 witness: an update has returned Ok on a pair with one row, which
\* points at the new event.
C10_Witness ==
    \E p \in Procs :
        /\ pc[p] = "idle"
        /\ res[p].op = "update"
        /\ res[p].status = "ok"
        /\ \E r \in Range(room_memberships) :
              /\ r.event_id = evid[p]
              /\ r.membership = "leave"
              /\ RowsOf(room_memberships, r.room_id, r.user_id) = 1

\* The rows stored under the key of a Transaction call's arguments.
StoredFor(table, args) == by_primary_key(table, args[1], args[2])

\* C11: Transaction::create for a key (path, access_token) that already has a
\* row fails with a Conflict error (or, when the database itself fails, a
\* Storage error) whether the new response is equal or different, and leaves
\* the table as it was; across every step each stored row stays stored, no
\* key has two rows, and the response stored for a key is the response of
\* the first successful create for that key.
C11_CreateOnExistingKeyConflicts ==
    [][ /\ (lookup' # lookup /\ lookup'.op = "Transaction::create"
               /\ StoredFor(transactions, lookup'.args) # {})
            => /\ lookup'.status \in {"conflict", "storage"}
               /\ transactions' = transactions
        /\ transactions \subseteq transactions'
        /\ \A t \in transactions' :
              /\ by_primary_key(transactions', t.path, t.access_token) = {t}
              /\ firstResponse'[<< t.path, t.access_token >>] = << t.response >>
      ]_vars

\* A create with a different response was refused with Conflict, and the key
\* still holds the first response.
C11_Witness ==
    /\ lookup.op = "Transaction::create"
    /\ lookup.status = "conflict"
    /\ \E t \in StoredFor(transactions, lookup.args) :
          /\ t.response # lookup.args[3]
          /\ firstResponse[<< t.path, t.access_token >>] = << t.response >>

\* C12: once Transaction::create(p, t, r) has succeeded, a Transaction::find(p, t)
\* that the database answers returns Some(transaction) for that key whose
\* response is exactly r, whatever creates and finds of other keys happened
\* in between.
C12_CreateThenFind ==
    (lookup.op = "Transaction::find"
        /\ firstResponse[<< lookup.args[1], lookup.args[2] >>] # << >>)
    => /\ lookup.status \in {"ok", "storage"}
       /\ lookup.status = "ok" =>
             lookup.rows = << NewTransaction(
                 lookup.args[1], lookup.args[2],
                 firstResponse[<< lookup.args[1], lookup.args[2] >>][1]) >>

\* A find returned the transaction of its key while the table also holds a
\* row with the same path, another token and another response.
C12_Witness ==
    /\ lookup.op = "Transaction::find"
    /\ lookup.status = "ok"
    /\ lookup.rows # << >>
    /\ \E t \in transactions :
          /\ t.path = lookup.args[1]
          /\ t.access_token # lookup.args[2]
          /\ t.response # lookup.rows[1].response

\* Caller p is inside a create for its own user in an invite-only room, found
\* no row and passed a membership of the closed set.
SelfJoin(p) ==
    /\ call[p].op = "create"
    /\ joinRule[call[p].room_id] = "invite"
    /\ call[p].sender = call[p].user_id
    /\ found[p] = << >>
    /\ call[p].membership \in MembershipStates

\* C13: a create with sender == user_id for an invite-only room whose pair has
\* no row is not refused: after the lookup it goes on to write (only a
\* database failure stops it), and when it returns Ok it returns the row it
\* inserted, whose event_id is the id of the member event it appended; when
\* no other call overlapped, that row and that event are the only ones of
\* the pair.
C13_SelfJoinBypass ==
    [][ \A p \in Procs :
          SelfJoin(p) =>
            /\ (pc[p] = "c_rules" /\ pc'[p] # "c_rules")
                  => (pc'[p] = "c_row" \/ res'[p].status = "storage")
            /\ (pc[p] = "c_commit" /\ pc'[p] = "idle" /\ res'[p].status = "ok")
                  => /\ res'[p].row # << >>
                     /\ res'[p].row[1] \in Range(room_memberships')
                     /\ SamePair(res'[p].row[1], call[p].room_id, call[p].user_id)
                     /\ res'[p].row[1].event_id = evid[p]
                     /\ \E e \in Range(events') :
                           /\ e.event_id = evid[p]
                           /\ SamePair(e, call[p].room_id, call[p].user_id)
                     /\ ~ overlapped' =>
                           /\ RowsOf(room_memberships', call[p].room_id,
                                     call[p].user_id) = 1
                           /\ EventsOf(events', call[p].room_id,
                                       call[p].user_id) = 1
      ]_vars

\* A create of u1 by u1 for the invite-only room r1 returned Ok with a row
\* of that pair, and no call overlapped.
C13_Witness ==
    /\ ~ overlapped
    /\ prev.call.op = "create"
    /\ prev.call.room_id = "r1"
    /\ joinRule["r1"] = "invite"
    /\ prev.call.sender = prev.call.user_id
    /\ prev.inserted
    /\ prev.res.status = "ok"
    /\ RowsOf(room_memberships, "r1", prev.call.user_id) = 1

\* C14: whenever the lookup of create found a row for (room_id, user_id), the
\* call returns Ok with that row and writes nothing, whatever the join-rule
\* state of the room is and also when the join-rule event cannot be read: the
\* statement that follows the lookup never makes the call fail.
C14_ExistingRowDecidesFirst ==
    [][ \A p \in Procs :
          (pc[p] = "c_rules" /\ found[p] # << >> /\ pc'[p] # "c_rules")
            => /\ res'[p] = Result("create", "ok", found[p])
               /\ events' = events
               /\ room_memberships' = room_memberships
      ]_vars

\* C15: a lookup that finds nothing reports it as an empty result and never
\* as an error: Transaction::find on a key without a row and
\* RoomMembership::find on a pair without a row return Ok(None),
\* find_by_user_id on a user without rows and get_events_by_room on a room
\* without rows return Ok of an empty collection; the only error a lookup
\* returns is the database's own failure.
C15_AbsenceIsEmptyNotError ==
    /\ (lookup.op = "Transaction::find"
           /\ StoredFor(transactions, lookup.args) = {})
        => /\ lookup.status \in {"ok", "storage"}
           /\ lookup.status = "ok" => lookup.rows = << >>
    /\ (lookup.op = "RoomMembership::find"
           /\ RowsOf(room_memberships, lookup.args[1], lookup.args[2]) = 0)
        => /\ lookup.status \in {"ok", "storage"}
           /\ lookup.status = "ok" => lookup.rows = << >>
    /\ (lookup.op = "RoomMembership::find_by_user_id"
           /\ \A r \in Range(room_memberships) : r.user_id # lookup.args[1])
        => /\ lookup.status \in {"ok", "storage"}
           /\ lookup.status = "ok" => lookup.rows = << >>
    /\ (listed.status # "none"
           /\ \A r \in Range(room_memberships) : r.room_id # listed.room_id)
        => /\ listed.status = "ok"
           /\ listed.events = << >>

\* Both tables hold rows; a Transaction::find on a key without a row answered
\* Ok(None) and get_events_by_room on a room without rows answered Ok of an
\* empty list.
C15_Witness ==
    /\ transactions # {}
    /\ room_memberships # << >>
    /\ lookup.op = "Transaction::find"
    /\ StoredFor(transactions, lookup.args) = {}
    /\ lookup.status = "ok"
    /\ lookup.rows = << >>
    /\ listed.status = "ok"
    /\ listed.events = << >>
    /\ \A r \in Range(room_memberships) : r.room_id # listed.room_id

\* The id of the member event appended last for the pair (0: there is none).
LastEventOf(log, room_id, user_id) ==
    LET at == { i \in 1..Len(log) : SamePair(log[i], room_id, user_id) }
    IN  IF at = {} THEN 0
        ELSE log[CHOOSE i \in at : \A j \in at : j <= i].event_id

\* C16: when two overlapping update_room_membership_events calls have both
\* returned Ok and no call is in progress, the event_id of every row is the
\* id of the member event appended last for the row's pair.
C16_RowPointsAtLatestEvent ==
    (AllIdle /\ overlapped /\ ncalls = 2
        /\ \A p \in Procs : res[p].op = "update" /\ res[p].status = "ok")
    => \A r \in Range(room_memberships) :
          r.event_id = LastEventOf(events, r.room_id, r.user_id)

\* The ways the create of caller p can leave the statement after its lookup,
\* given only what the lookup found for its own pair, its options and the
\* join rule of its room.
AloneOutcome(p) ==
    IF joinRule[call[p].room_id] = "none" THEN {"not_found", "storage"}
    ELSE IF found[p] # << >> THEN {"ok", "storage"}
    ELSE IF not_invited(call[p], joinRule[call[p].room_id])
         THEN {"unauthorized", "storage"}
    ELSE IF call[p].membership \notin MembershipStates
         THEN {"serialization", "storage"}
    ELSE {"c_row", "storage"}

\* C17: a create is decided by the rows of its own pair only and writes rows
\* and events of its own pair only, whatever another caller's create for a
\* different pair is doing at the same time: its lookup finds a row exactly
\* when its pair has a committed one, its outcome is the one it has alone,
\* every step leaves the rows and events of other pairs as they are, and
\* when it inserted and returned Ok its pair has exactly the one row it
\* returned and one member event.
C17_DifferentPairsIndependent ==
    [][ \A p \in Procs :
          /\ (pc[p] = "idle" /\ pc'[p] = "c_rules")
                => /\ (found'[p] = << >>) <=>
                          (RowsOf(room_memberships, call'[p].room_id,
                                  call'[p].user_id) = 0)
                   /\ found'[p] # << >> =>
                          SamePair(found'[p][1], call'[p].room_id, call'[p].user_id)
          /\ (pc[p] = "c_rules" /\ pc'[p] # "c_rules")
                => (IF pc'[p] = "idle" THEN res'[p].status ELSE pc'[p])
                       \in AloneOutcome(p)
          /\ (pc[p] # "idle" /\ pc'[p] # pc[p] /\ call[p].op = "create")
                => /\ Extends(room_memberships, room_memberships')
                   /\ Extends(events, events')
                   /\ \A x \in Added(room_memberships, room_memberships')
                             \cup Added(events, events') :
                          SamePair(x, call[p].room_id, call[p].user_id)
          /\ (pc[p] = "c_commit" /\ pc'[p] = "idle" /\ res'[p].status = "ok"
                 /\ RowsOf(room_memberships, call[p].room_id, call[p].user_id) = 0)
                => /\ RowsOf(room_memberships', call[p].room_id,
                             call[p].user_id) = 1
                   /\ EventsOf(events', call[p].room_id, call[p].user_id) = 1
                   /\ res'[p].row \in find(room_memberships', call[p].room_id,
                                           call[p].user_id)
      ]_vars

\* Two overlapping creates for different pairs both returned Ok and each
\* pair has its one row.
C17_Witness ==
    /\ AllIdle
    /\ overlapped
    /\ ncalls = 2
    /\ Len(room_memberships) = 2
    /\ \A p \in Procs :
          /\ res[p].op = "create"
          /\ res[p].status = "ok"
          /\ res[p].row # << >>
          /\ RowsOf(room_memberships, res[p].row[1].room_id,
                    res[p].row[1].user_id) = 1

\* C18: no step of create or update_room_membership_events removes a row or
\* changes the room_id, user_id, sender, membership or created_at of a row;
\* the event_id of a row changes only in the UPDATE of an update call made
\* for the row's own pair, and becomes the id of that call's event.
C18_UpdateChangesOnlyEventId ==
    [][ /\ Len(room_memberships) <= Len(room_memberships')
        /\ \A i \in 1..Len(room_memberships) :
              LET old == room_memberships[i]
                  new == room_memberships'[i]
              IN  /\ new = [ old EXCEPT !.event_id = new.event_id ]
                  /\ new.event_id # old.event_id
                        => \E p \in Procs :
                              /\ pc[p] = "u_row"
                              /\ pc'[p] = "idle"
                              /\ SamePair(old, call[p].room_id, call[p].user_id)
                              /\ new.event_id = evid[p]
      ]_vars

\* An update repointed the row of (r2, u1) while the row of (r2, u2), in the
\* same room, still carries the event of its create.
C18_Witness ==
    /\ \E p \in Procs : res[p].op = "update" /\ res[p].status = "ok"
    /\ \E r \in Range(room_memberships) :
          SamePair(r, "r2", "u1") /\ r.event_id > Len(JoinedUsers)
    /\ \E r \in Range(room_memberships) :
          SamePair(r, "r2", "u2") /\ r.event_id = 2

\* Caller p starts an update_room_membership_events call in this step: the
\* call takes the fresh event id.
UpdateStart(p) == pc[p] = "idle" /\ evid'[p] = nextId

\* The RoomMembership the update call started by p in this step was given.
UpdateArg(p) == IF pc'[p] = "u_row" THEN call'[p].arg[1] ELSE res'[p].row[1]

\* C19 as stated: a create whose options.membership, or an update whose
\* row's membership, is outside the closed set returns a Serialization error
\* (or the database's own failure) and writes nothing.
C19_InvalidMembershipFails ==
    [][ \A p \in Procs :
          /\ (call[p].op = "create" /\ call[p].membership \notin MembershipStates
                 /\ pc[p] # "idle" /\ pc'[p] = "idle")
                => /\ res'[p].status \in {"serialization", "storage"}
                   /\ events' = events
                   /\ room_memberships' = room_memberships
          /\ (UpdateStart(p) /\ UpdateArg(p).membership \notin MembershipStates)
                => /\ pc'[p] = "idle"
                   /\ res'[p].status = "serialization"
                   /\ events' = events
                   /\ room_memberships' = room_memberships
      ]_vars

\* C19, amended: an update whose row's membership is outside the closed set
\* returns a Serialization error in its first step; a create whose
\* options.membership is outside the closed set returns a Serialization
\* error (or the database's own failure) when its lookup found no row, the
\* room has a join rules event and the guard does not refuse the sender, and
\* otherwise returns what it returns for a valid string; in every case the
\* call appends no event, inserts no row and changes no event_id.
C19_InvalidMembershipAtConstruction ==
    [][ \A p \in Procs :
          /\ (call[p].op = "create" /\ call[p].membership \notin MembershipStates
                 /\ pc[p] = "c_rules" /\ pc'[p] # "c_rules")
                => /\ pc'[p] = "idle"
                   /\ res'[p].status \in AloneOutcome(p)
                   /\ (joinRule[call[p].room_id] # "none" /\ found[p] = << >>
                          /\ ~ not_invited(call[p], joinRule[call[p].room_id]))
                        => res'[p].status \in {"serialization", "storage"}
                   /\ txEvents[p] = << >>
                   /\ txRows[p] = << >>
                   /\ events' = events
                   /\ room_memberships' = room_memberships
          /\ (UpdateStart(p) /\ UpdateArg(p).membership \notin MembershipStates)
                => /\ pc'[p] = "idle"
                   /\ res'[p].op = "update"
                   /\ res'[p].status = "serialization"
                   /\ events' = events
                   /\ room_memberships' = room_memberships
      ]_vars

\* A create for a pair without a row and an update of an existing row, both
\* with a membership outside the closed set, returned a Serialization error
\* and the tables are those of the start.
C19_Witness ==
    /\ \E p \in Procs : res[p] = Result("create", "serialization", << >>)
    /\ \E p \in Procs :
          /\ res[p].op = "update"
          /\ res[p].status = "serialization"
          /\ res[p].row[1].membership \notin MembershipStates
    /\ Len(events) = Len(JoinedUsers)
    /\ Len(room_memberships) = Len(JoinedUsers)

\* C20: when update_room_membership_events returns Ok, the RoomMembership the
\* caller passed by mutable reference carries the id of the event the call
\* appended, which is the event_id of the stored rows of its pair.
C20_CallerCopyFollowsRow ==
    [][ \A p \in Procs :
          (pc[p] = "u_row" /\ pc'[p] = "idle" /\ res'[p].status = "ok")
            => /\ res'[p].row[1].event_id = evid[p]
               /\ \A r \in Range(room_memberships') :
                     SamePair(r, res'[p].row[1].room_id, res'[p].row[1].user_id)
                        => r.event_id = res'[p].row[1].event_id
      ]_vars

====
